---- MODULE Spec2Model ----
(***************************************************************************)
(* Activity tracker (event_listener.py) and usage store                    *)
(* (activity_logger.py) of the task-mining prototype.                      *)
(*                                                                         *)
(* Time is counted in clock units of 1/Res second, so that the truncation  *)
(* int(elapsed_time) of the tracker is a real division.                    *)
(***************************************************************************)
EXTENDS Integers, Sequences, FiniteSets, TLC

VARIABLES
    now,              \* datetime.datetime.now(), in clock units
    advances,         \* number of clock advances taken so far
    fg,               \* the foreground window of the desktop (environment)
    changes,          \* number of foreground changes taken so far
    inputs,           \* number of key / mouse presses delivered so far
    failures,         \* number of store calls and captures that failed so far
    running,          \* EventListener.running
    spawned,          \* number of times start_monitoring has started its threads
    active_window,    \* EventListener.active_window {title, application, last_update}
    last_input_time,  \* EventListener.last_input_time
    lock,             \* owner of EventListener.lock, or "free"
    pcTick,           \* position of the oldest live _check_active_window thread
    tickWin,          \* (current_title, current_app) read by the tick loop
    pcFlush,          \* position of the oldest live _update_app_usage_periodically thread
    pcInput,          \* whether each pynput listener is delivering presses
    user_events,      \* table user_events, in rowid order
    app_usage,        \* table app_usage, in rowid order
    pcCall,           \* position of each direct caller of update_app_usage
    callArg,          \* arguments and SELECT result of each direct caller
    calls,            \* number of direct update_app_usage calls started
    accepted,         \* history: sum of the deltas of the completed direct calls, per key
    overlap,          \* history: two direct calls have been in flight together
    span,             \* history: idle clock units inside (last_update, now]
    lastFlush,        \* history: the last update_app_usage call of the tracker
    firstObs,         \* history: time of the first observation
    period,           \* history: the current foreground period
    closed,           \* history: the foreground period ended by the last transition
    batch,            \* the last batch job (miner, scorer) that ran, and what it returned
    file_events,      \* the number of stored file events of the last days, by event type
    alive             \* the number of live threads of each of the two loops

vars == << now, advances, fg, changes, inputs, failures, running, spawned,
           active_window, last_input_time, lock, pcTick, tickWin, pcFlush,
           pcInput, user_events, app_usage, pcCall, callArg, calls,
           accepted, overlap, span, lastFlush, firstObs, period, closed,
           batch, file_events, alive >>

trackerVars == << now, advances, fg, changes, inputs, failures, running, spawned,
                  active_window, last_input_time, lock, pcTick, tickWin, pcFlush,
                  pcInput, user_events,
                  span, lastFlush, firstObs, period, closed, alive >>

callerVars == << pcCall, callArg, calls, accepted, overlap >>

(***************************************************************************)
(* Bounds of the model                                                     *)
(***************************************************************************)
Res == 2
MaxAdvances == 2
MaxChanges == 1
MaxInputs == 2
MaxFailures == 1
MaxStarts == 2
MaxCalls == 3
MaxDelta == 2
MaxEvents == 6
MaxStamped == 3

(***************************************************************************)
(* Program constants                                                       *)
(***************************************************************************)
IdleThreshold == 60
FlushInterval == 30

\* Python None, for a time or a duration that is not set
None == -1

\* get_current_date(): the tracker runs within one calendar day
Today == 1

FirstWindow == [title |-> "t1", application |-> "A"]
Windows == { FirstWindow, [title |-> "t2", application |-> "B"] }

InputKinds == {"keyboard", "mouse_click"}

\* the clock moves by a fraction of a second, by the flush interval or by
\* the idle threshold
AdvanceSteps == {1, FlushInterval * Res, IdleThreshold * Res}

(***************************************************************************)
(* ActivityLogger: table app_usage and update_app_usage / get_app_usage    *)
(***************************************************************************)
Apps == {"A", "B"}
Dates == {Today - 1, Today}
Keys == Dates \X Apps
Callers == {1, 2}

Row(date, application, duration_seconds) ==
    [date |-> date, application |-> application,
     duration_seconds |-> duration_seconds]

Matches(row, date, application) ==
    row.date = date /\ row.application = application

RECURSIVE FirstMatch(_, _, _, _)
FirstMatch(rows, date, application, i) ==
    IF i > Len(rows) THEN None
    ELSE IF Matches(rows[i], date, application) THEN rows[i].duration_seconds
    ELSE FirstMatch(rows, date, application, i + 1)

\* SELECT duration_seconds ... WHERE date = ? AND application = ?; fetchone()
SelectDuration(rows, date, application) ==
    FirstMatch(rows, date, application, 1)

\* UPDATE app_usage SET duration_seconds = ? WHERE date = ? AND application = ?
UpdateRows(rows, date, application, value) ==
    [i \in 1..Len(rows) |->
        IF Matches(rows[i], date, application)
        THEN [rows[i] EXCEPT !.duration_seconds = value]
        ELSE rows[i]]

\* INSERT INTO app_usage VALUES (?, ?, ?)
InsertRow(rows, date, application, duration_seconds) ==
    Append(rows, Row(date, application, duration_seconds))

\* mutant: the UPDATE stores the delta instead of current_duration + delta
WriteUsageOverwrite(rows, date, application, result, duration_seconds) ==
    IF result # None
    THEN UpdateRows(rows, date, application, duration_seconds)
    ELSE InsertRow(rows, date, application, duration_seconds)

\* the branch on the SELECT's result, lines 179-191
WriteUsage(rows, date, application, result, duration_seconds) ==
    IF result # None
    THEN UpdateRows(rows, date, application, result + duration_seconds)
    ELSE InsertRow(rows, date, application, duration_seconds)

\* one whole call that no other call overlaps
update_app_usage(rows, application, duration_seconds, date) ==
    WriteUsage(rows, date, application,
               SelectDuration(rows, date, application), duration_seconds)

\* get_app_usage(date, days = 1): SELECT ... WHERE date = ?
get_app_usage(rows, date) ==
    SelectSeq(rows, LAMBDA row : row.date = date)

RECURSIVE SumDurations(_)
SumDurations(rows) ==
    IF rows = << >> THEN 0
    ELSE Head(rows).duration_seconds + SumDurations(Tail(rows))

KeyRows(rows, date, application) ==
    SelectSeq(rows, LAMBDA row : Matches(row, date, application))

\* what get_app_usage(date) reports for one application, summed over its rows
Reported(rows, date, application) ==
    SumDurations(KeyRows(get_app_usage(rows, date), date, application))

(***************************************************************************)
(* Direct callers of update_app_usage: each call is a SELECT step and a    *)
(* write step on its own connection, with no lock between callers.         *)
(***************************************************************************)
NoArg == [date |-> Today, application |-> "A", duration_seconds |-> 0, result |-> None]

CallSelect(c, application, duration_seconds, date) ==
    /\ pcCall[c] = "idle"
    /\ calls < MaxCalls
    /\ calls' = calls + 1
    /\ callArg' = [callArg EXCEPT ![c] =
                     [date |-> date, application |-> application,
                      duration_seconds |-> duration_seconds,
                      result |-> SelectDuration(app_usage, date, application)]]
    /\ pcCall' = [pcCall EXCEPT ![c] = "write"]
    /\ overlap' = (overlap \/ \E o \in Callers \ {c} : pcCall[o] = "write")
    /\ UNCHANGED << app_usage, accepted >>

CallWrite(c) ==
    /\ pcCall[c] = "write"
    /\ app_usage' = WriteUsage(app_usage, callArg[c].date, callArg[c].application,
                               callArg[c].result, callArg[c].duration_seconds)
    /\ accepted' = [accepted EXCEPT ![<<callArg[c].date, callArg[c].application>>] =
                       @ + callArg[c].duration_seconds]
    /\ pcCall' = [pcCall EXCEPT ![c] = "idle"]
    /\ callArg' = [callArg EXCEPT ![c] = NoArg]
    /\ UNCHANGED << calls, overlap >>

(***************************************************************************)
(* ActivityLogger.log_user_event                                           *)
(***************************************************************************)
\* a row of user_events; the rows are kept in insertion order, which is the
\* order of their timestamps (the timestamp column itself is not kept)
Event(window_title, application, event_type) ==
    [window_title |-> window_title, application |-> application,
     event_type |-> event_type]

\* INSERT INTO user_events VALUES (...)
log_user_event(events, window_title, application, event_type) ==
    Append(events, Event(window_title, application, event_type))

(***************************************************************************)
(* EventListener                                                           *)
(***************************************************************************)
NoWindow == [title |-> "", application |-> ""]

\* how a capture ends: the window and its process are read, the process
\* cannot be read (line 54), or the capture itself raises (line 59)
Outcomes == {"ok", "no_process", "error"}

\* the values the except branches of _get_active_window_info substitute
UnknownApplication == "Bilinmeyen Uygulama"
ErrorWindow == [title |-> "Hata", application |-> "Hata"]

\* mutant: without the except branches a failed capture yields no value
get_active_window_info_unguarded(w, outcome) ==
    IF outcome = "ok" THEN [title |-> w.title, application |-> w.application]
    ELSE NoWindow

\* _get_active_window_info: the foreground window, or the values the except
\* branches substitute
get_active_window_info(w, outcome) ==
    IF outcome = "ok" THEN [title |-> w.title, application |-> w.application]
    ELSE IF outcome = "no_process"
         THEN [title |-> w.title, application |-> UnknownApplication]
    ELSE ErrorWindow

\* (datetime.datetime.now() - t).total_seconds(), in clock units
total_seconds(t) == now - t

\* int(elapsed_time): whole seconds, truncated toward zero (elapsed > 0 here)
IntSeconds(elapsed_time) == elapsed_time \div Res

\* last_input_time and (now - last_input_time).total_seconds() < 60
IsActive ==
    /\ last_input_time # None
    /\ total_seconds(last_input_time) < IdleThreshold * Res

\* mutant: only the first observation counts as a change
DiffersWhenUnset(w) == active_window.last_update = None

\* the condition of line 206-207
WindowDiffers(w) ==
    \/ w.title # active_window.title
    \/ w.application # active_window.application

\* an elapsed-time condition that tests neither last_update nor the
\* application
HasElapsedUnguarded == total_seconds(active_window.last_update) > 0

\* the condition of lines 74-76 and of lines 224-231 on the elapsed time
HasElapsed ==
    /\ active_window.last_update # None
    /\ total_seconds(active_window.last_update) > 0
    /\ active_window.application # ""

NoFlush == [path |-> "none", application |-> "", delta |-> 0,
            elapsed |-> 0, idle |-> 0, active |-> FALSE, ok |-> FALSE]

\* history of one update_app_usage call made by the tracker
FlushRecord(path, ok) ==
    [path |-> path,
     application |-> active_window.application,
     delta |-> IntSeconds(total_seconds(active_window.last_update)),
     elapsed |-> total_seconds(active_window.last_update),
     idle |-> span, active |-> IsActive, ok |-> ok]

NoPeriod == [application |-> "", length |-> 0, accrued |-> 0, idle |-> 0]

\* clock units of (now, now + dt] at which now - last_input_time >= 60 s;
\* the time before the first input is not counted as idle
IdlePart(dt) ==
    IF last_input_time = None THEN 0
    ELSE LET from == IF last_input_time + IdleThreshold * Res > now
                     THEN last_input_time + IdleThreshold * Res ELSE now
         IN  IF now + dt > from THEN now + dt - from ELSE 0

\* the event types of the file watcher
FileEventTypes == {"modified", "created"}

\* no file event is stored
NoFileEvents == [t \in FileEventTypes |-> 0]

\* no batch job has run
NoBatch == [op |-> "none"]

\* the state after construction, on a store that holds the events, the usage
\* rows and the file event counts given
InitStore(events, rows, counts) ==
    /\ batch = NoBatch
    /\ file_events = counts
    /\ alive = [tick |-> 0, flush |-> 0]
    /\ now = 0 /\ advances = 0
    /\ fg = FirstWindow /\ changes = 0
    /\ inputs = 0 /\ failures = 0
    /\ running = FALSE /\ spawned = 0
    /\ active_window = [title |-> "", application |-> "", last_update |-> None]
    /\ last_input_time = None
    /\ lock = "free"
    /\ pcTick = "off" /\ tickWin = NoWindow
    /\ pcFlush = "off"
    /\ pcInput = [k \in InputKinds |-> "off"]
    /\ user_events = events
    /\ app_usage = rows
    /\ pcCall = [c \in Callers |-> "idle"]
    /\ callArg = [c \in Callers |-> NoArg]
    /\ calls = 0
    /\ accepted = [k \in Keys |-> 0]
    /\ overlap = FALSE
    /\ span = 0
    /\ lastFlush = NoFlush
    /\ firstObs = None
    /\ period = [start |-> None, accrued |-> 0, idle |-> 0]
    /\ closed = NoPeriod

\* the program starts on an empty store
Init == InitStore(<< >>, << >>, NoFileEvents)

histVars == << span, lastFlush, firstObs, period, closed >>
envVars == << now, advances, fg, changes >>

\* start_monitoring: returns at once while running (line 244); otherwise it
\* sets the flag and starts two new loop threads and two new listeners. Loop
\* threads of an earlier start that have not yet seen the flag cleared keep
\* running beside the new ones; pcTick and pcFlush follow the oldest live
\* thread of each loop, and alive counts the live threads.
start_monitoring ==
    /\ ~running
    /\ spawned < MaxStarts
    /\ spawned' = spawned + 1
    /\ running' = TRUE
    /\ alive' = [tick |-> alive.tick + 1, flush |-> alive.flush + 1]
    /\ pcTick' = IF pcTick \in {"off", "exit"} THEN "loop" ELSE pcTick
    /\ pcFlush' = IF pcFlush \in {"off", "exit", "dead"} THEN "loop" ELSE pcFlush
    /\ pcInput' = [k \in InputKinds |-> "ready"]
    /\ UNCHANGED << envVars, inputs, failures, active_window, last_input_time,
                    lock, tickWin, user_events, app_usage,
                    callerVars, batch, file_events, histVars >>

\* stop_monitoring: running = False, nothing else (the listeners are not
\* stopped and no thread is joined)
stop_monitoring ==
    /\ running
    /\ running' = FALSE
    /\ UNCHANGED << envVars, inputs, failures, spawned, active_window,
                    last_input_time, lock, pcTick, tickWin, pcFlush, pcInput,
                    user_events, app_usage, callerVars, batch, file_events, alive, histVars >>

\* the clock moves on
Advance(dt) ==
    /\ advances < MaxAdvances
    /\ advances' = advances + 1
    /\ now' = now + dt
    /\ span' = IF active_window.last_update = None THEN 0 ELSE span + IdlePart(dt)
    /\ period' = IF period.start = None THEN period
                 ELSE [period EXCEPT !.idle = @ + IdlePart(dt)]
    /\ UNCHANGED << fg, changes, inputs, failures, running, spawned,
                    active_window, last_input_time, lock, pcTick, tickWin,
                    pcFlush, pcInput, user_events, app_usage,
                    callerVars, batch, file_events, alive, lastFlush, firstObs, closed >>

\* the user brings another window to the foreground
ForegroundChange(w) ==
    /\ changes < MaxChanges
    /\ w # fg
    /\ changes' = changes + 1
    /\ fg' = w
    /\ UNCHANGED << now, advances, inputs, failures, running, spawned,
                    active_window, last_input_time, lock, pcTick, tickWin,
                    pcFlush, pcInput, user_events, app_usage,
                    callerVars, batch, file_events, alive, histVars >>

(***************************************************************************)
(* _check_active_window: the tick loop                                     *)
(***************************************************************************)
\* lines 201-210: the loop test, the capture and the choice of the branch,
\* all read without the lock
TickObserve(outcome) ==
    /\ pcTick = "loop"
    /\ IF ~running
       THEN /\ outcome = "ok"
            /\ pcTick' = IF alive.tick > 1 THEN "loop" ELSE "exit"
            /\ tickWin' = tickWin
       ELSE LET w == get_active_window_info(fg, outcome) IN
            IF WindowDiffers(w)
            THEN pcTick' = "change" /\ tickWin' = w
            ELSE IF IsActive
                 THEN pcTick' = "same" /\ tickWin' = tickWin
                 ELSE pcTick' = "loop" /\ tickWin' = tickWin
    /\ IF outcome = "ok" \/ ~running
       THEN failures' = failures
       ELSE failures < MaxFailures /\ failures' = failures + 1
    /\ alive' = IF running THEN alive ELSE [alive EXCEPT !.tick = @ - 1]
    /\ UNCHANGED << envVars, inputs, running, spawned, active_window,
                    last_input_time, lock, pcFlush, pcInput,
                    user_events, app_usage, callerVars, batch, file_events, histVars >>

\* _on_window_change, lines 65-71: take the lock and log the window_change
\* event; a raise leaves the with block and is caught at line 214
TickLogChange(ok) ==
    /\ pcTick = "change"
    /\ lock = "free"
    /\ IF ok
       THEN /\ user_events' = log_user_event(user_events, tickWin.title,
                                             tickWin.application, "window_change")
            /\ lock' = "tick"
            /\ pcTick' = "flush_prev"
            /\ failures' = failures
       ELSE /\ failures < MaxFailures
            /\ failures' = failures + 1
            /\ pcTick' = "loop"
            /\ UNCHANGED << user_events, lock >>
    /\ UNCHANGED << envVars, inputs, running, spawned, active_window,
                    last_input_time, tickWin, pcFlush, pcInput,
                    app_usage, callerVars, batch, file_events, alive, histVars >>

\* the new active_window of lines 84-88, and the history of the period it ends
SetWindow(delta) ==
    /\ active_window' = [title |-> tickWin.title,
                         application |-> tickWin.application,
                         last_update |-> now]
    /\ span' = 0
    /\ firstObs' = IF firstObs = None THEN now ELSE firstObs
    /\ closed' = IF period.start = None THEN NoPeriod
                 ELSE [application |-> active_window.application,
                       length |-> now - period.start,
                       accrued |-> period.accrued + delta,
                       idle |-> period.idle]
    /\ period' = [start |-> now, accrued |-> 0, idle |-> 0]
    /\ lock' = "free"
    /\ pcTick' = "loop"

\* mutant: the flush of a transition is credited to the window just observed
ObservedApplication == tickWin.application

\* line 79: the application the flush of a transition is credited to
PreviousApplication == active_window.application

\* _on_window_change, lines 73-88: flush the elapsed time to the previous
\* application, then replace active_window and leave the with block
TickFlushSet(ok) ==
    /\ pcTick = "flush_prev"
    /\ IF HasElapsed
       THEN IF ok
            THEN /\ app_usage' = update_app_usage(app_usage, PreviousApplication,
                                     IntSeconds(total_seconds(active_window.last_update)),
                                     Today)
                 /\ lastFlush' = FlushRecord("transition", TRUE)
                 /\ SetWindow(IntSeconds(total_seconds(active_window.last_update)))
                 /\ failures' = failures
            ELSE /\ failures < MaxFailures
                 /\ failures' = failures + 1
                 /\ lastFlush' = FlushRecord("transition", FALSE)
                 /\ lock' = "free"
                 /\ pcTick' = "loop"
                 /\ UNCHANGED << app_usage, active_window, span, firstObs,
                                 period, closed >>
       ELSE /\ ok
            /\ SetWindow(0)
            /\ UNCHANGED << app_usage, lastFlush, failures >>
    /\ UNCHANGED << envVars, inputs, running, spawned, last_input_time, tickWin,
                    pcFlush, pcInput, user_events, callerVars, batch, file_events, alive >>

\* lines 210-213: same window and recent input: last_update = now
TickAdvance ==
    /\ pcTick = "same"
    /\ lock = "free"
    /\ active_window' = [active_window EXCEPT !.last_update = now]
    /\ span' = 0
    /\ pcTick' = "loop"
    /\ UNCHANGED << envVars, inputs, failures, running, spawned,
                    last_input_time, lock, tickWin, pcFlush, pcInput,
                    user_events, app_usage, callerVars, batch, file_events, alive, lastFlush, firstObs,
                    period, closed >>

(***************************************************************************)
(* _update_app_usage_periodically: the periodic flush loop                 *)
(***************************************************************************)
\* lines 221-236: the loop test, the lock, the conditions and the call; a
\* raise leaves the with block and the thread's function
FlushCall(ok) ==
    /\ pcFlush = "loop"
    /\ IF ~running
       THEN /\ ok
            /\ pcFlush' = IF alive.flush > 1 THEN "loop" ELSE "exit"
            /\ alive' = [alive EXCEPT !.flush = @ - 1]
            /\ UNCHANGED << lock, app_usage, lastFlush, period, failures >>
       ELSE /\ lock = "free"
            /\ IF IsActive /\ HasElapsed
               THEN IF ok
                    THEN /\ app_usage' = update_app_usage(app_usage,
                                   active_window.application,
                                   IntSeconds(total_seconds(active_window.last_update)),
                                   Today)
                         /\ lastFlush' = FlushRecord("periodic", TRUE)
                         /\ period' = [period EXCEPT !.accrued = @
                               + IntSeconds(total_seconds(active_window.last_update))]
                         /\ lock' = "flush"
                         /\ pcFlush' = "set"
                         /\ failures' = failures
                         /\ alive' = alive
                    ELSE /\ failures < MaxFailures
                         /\ failures' = failures + 1
                         /\ lastFlush' = FlushRecord("periodic", FALSE)
                         /\ pcFlush' = IF alive.flush > 1 THEN "loop" ELSE "dead"
                         /\ alive' = [alive EXCEPT !.flush = @ - 1]
                         /\ UNCHANGED << lock, app_usage, period >>
               ELSE /\ ok
                    /\ UNCHANGED << pcFlush, lock, app_usage, lastFlush,
                                    period, failures, alive >>
    /\ UNCHANGED << envVars, inputs, running, spawned, active_window,
                    last_input_time, pcTick, tickWin, pcInput,
                    user_events, callerVars, batch, file_events, span, firstObs, closed >>

\* mutant: the periodic loop leaves last_update as it was
FlushSetKeepsLastUpdate ==
    /\ pcFlush = "set"
    /\ lock' = "free"
    /\ pcFlush' = "loop"
    /\ UNCHANGED << envVars, inputs, failures, running, spawned, active_window,
                    last_input_time, pcTick, tickWin, pcInput,
                    user_events, app_usage, callerVars, batch, file_events, alive, histVars >>

\* mutant: the periodic loop leaves its with block without releasing the lock
FlushSetKeepsLock ==
    /\ pcFlush = "set"
    /\ active_window' = [active_window EXCEPT !.last_update = now]
    /\ span' = 0
    /\ pcFlush' = "loop"
    /\ UNCHANGED << envVars, inputs, failures, running, spawned,
                    last_input_time, lock, pcTick, tickWin, pcInput,
                    user_events, app_usage, callerVars, batch, file_events, alive, lastFlush, firstObs,
                    period, closed >>

\* line 238: last_update = now, then the with block ends
FlushSet ==
    /\ pcFlush = "set"
    /\ active_window' = [active_window EXCEPT !.last_update = now]
    /\ span' = 0
    /\ lock' = "free"
    /\ pcFlush' = "loop"
    /\ UNCHANGED << envVars, inputs, failures, running, spawned,
                    last_input_time, pcTick, tickWin, pcInput,
                    user_events, app_usage, callerVars, batch, file_events, alive, lastFlush, firstObs,
                    period, closed >>

(***************************************************************************)
(* _on_key_press / _on_mouse_click (pressed): the listener callbacks       *)
(***************************************************************************)
\* the whole callback, under the lock: last_input_time = now (lines 123 /
\* 174), the window read from the desktop (126 / 177) and the event logged
\* with it (143 / 187); a raise of the store is caught at 165 / 196
InputPress(k, outcome, ok) ==
    /\ pcInput[k] = "ready"
    /\ lock = "free"
    /\ inputs < MaxInputs
    /\ inputs' = inputs + 1
    /\ last_input_time' = now
    /\ LET w == get_active_window_info(fg, outcome) IN
       IF ok
       THEN user_events' = log_user_event(user_events, w.title, w.application, k)
       ELSE user_events' = user_events
    /\ IF ok /\ outcome = "ok"
       THEN failures' = failures
       ELSE failures < MaxFailures /\ failures' = failures + 1
    /\ UNCHANGED << envVars, running, spawned, active_window, lock, pcTick, tickWin,
                    pcFlush, pcInput, app_usage, callerVars, batch, file_events, alive, histVars >>

\* the tracker while it runs, the store answers every call and the user's
\* input comes from the keyboard
Next ==
    \/ start_monitoring
    \/ \E dt \in AdvanceSteps : Advance(dt)
    \/ \E w \in Windows : ForegroundChange(w)
    \/ TickObserve("ok")
    \/ TickLogChange(TRUE)
    \/ TickFlushSet(TRUE)
    \/ TickAdvance
    \/ FlushCall(TRUE)
    \/ FlushSet
    \/ InputPress("keyboard", "ok", TRUE)

Spec == Init /\ [][Next]_vars

(***************************************************************************)
(* The tracker over a store whose calls may raise (database locked, disk   *)
(* full): log_user_event and update_app_usage either return or raise       *)
(***************************************************************************)
NextFail ==
    \/ start_monitoring
    \/ \E dt \in AdvanceSteps : Advance(dt)
    \/ \E w \in Windows : ForegroundChange(w)
    \/ TickObserve("ok")
    \/ \E ok \in BOOLEAN : TickLogChange(ok)
    \/ \E ok \in BOOLEAN : TickFlushSet(ok)
    \/ TickAdvance
    \/ \E ok \in BOOLEAN : FlushCall(ok)
    \/ FlushSet
    \/ \E ok \in BOOLEAN : InputPress("keyboard", "ok", ok)

SpecFail == Init /\ [][NextFail]_vars

(***************************************************************************)
(* The tracker started and stopped by its owner                            *)
(***************************************************************************)
NextLife ==
    \/ start_monitoring
    \/ stop_monitoring
    \/ \E dt \in AdvanceSteps : Advance(dt)
    \/ \E w \in Windows : ForegroundChange(w)
    \/ TickObserve("ok")
    \/ TickLogChange(TRUE)
    \/ TickFlushSet(TRUE)
    \/ TickAdvance
    \/ FlushCall(TRUE)
    \/ FlushSet
    \/ InputPress("keyboard", "ok", TRUE)

SpecLife == Init /\ [][NextLife]_vars

(***************************************************************************)
(* The threads of the tracker under a fair scheduler: a thread whose next  *)
(* step stays possible takes it. The store calls return or raise, the      *)
(* captures return, and the user's input comes from the mouse.             *)
(***************************************************************************)
NextLock ==
    \/ start_monitoring
    \/ \E dt \in AdvanceSteps : Advance(dt)
    \/ \E w \in Windows : ForegroundChange(w)
    \/ TickObserve("ok")
    \/ \E ok \in BOOLEAN : TickLogChange(ok)
    \/ \E ok \in BOOLEAN : TickFlushSet(ok)
    \/ TickAdvance
    \/ \E ok \in BOOLEAN : FlushCall(ok)
    \/ FlushSet
    \/ \E ok \in BOOLEAN : InputPress("mouse_click", "ok", ok)

\* each thread of lines 250-255 is scheduled again and again
FairThreads ==
    /\ WF_vars(TickObserve("ok"))
    /\ WF_vars(\E ok \in BOOLEAN : TickLogChange(ok))
    /\ WF_vars(\E ok \in BOOLEAN : TickFlushSet(ok))
    /\ WF_vars(TickAdvance)
    /\ WF_vars(\E ok \in BOOLEAN : FlushCall(ok))
    /\ WF_vars(FlushSet)

SpecLock == Init /\ [][NextLock]_vars /\ FairThreads

(***************************************************************************)
(* The running tracker over a store that answers every call, its tick loop *)
(* scheduled fairly and the periodic loop leaving its with block           *)
(***************************************************************************)
NextLive ==
    \/ start_monitoring
    \/ \E dt \in AdvanceSteps : Advance(dt)
    \/ \E w \in Windows : ForegroundChange(w)
    \/ TickObserve("ok")
    \/ TickLogChange(TRUE)
    \/ TickFlushSet(TRUE)
    \/ TickAdvance
    \/ FlushCall(TRUE)
    \/ FlushSet
    \/ InputPress("keyboard", "ok", TRUE)

\* the tick loop wakes every second (line 217) and runs on; the periodic
\* loop, once inside its with block, reaches the end of it
FairTick ==
    /\ WF_vars(TickObserve("ok"))
    /\ WF_vars(TickLogChange(TRUE))
    /\ WF_vars(TickFlushSet(TRUE))
    /\ WF_vars(TickAdvance)
    /\ WF_vars(FlushSet)

SpecLive == Init /\ [][NextLive]_vars /\ FairTick

(***************************************************************************)
(* The tick loop and the two listener callbacks at one instant, over a     *)
(* desktop whose capture may fail and a store whose log_user_event may     *)
(* raise                                                                   *)
(***************************************************************************)
NextCapture ==
    \/ start_monitoring
    \/ \E w \in Windows : ForegroundChange(w)
    \/ \E outcome \in Outcomes : TickObserve(outcome)
    \/ TickLogChange(TRUE)
    \/ TickFlushSet(TRUE)
    \/ TickAdvance
    \/ \E k \in InputKinds, outcome \in Outcomes, ok \in BOOLEAN :
          InputPress(k, outcome, ok)

SpecCapture == Init /\ [][NextCapture]_vars

(***************************************************************************)
(* The usage store under direct callers                                    *)
(***************************************************************************)
NextStore ==
    \/ \E c \in Callers, a \in Apps, d \in 0..MaxDelta, date \in Dates :
          /\ CallSelect(c, a, d, date)
          /\ UNCHANGED << trackerVars, batch, file_events, alive >>
    \/ \E c \in Callers : CallWrite(c) /\ UNCHANGED << trackerVars, batch, file_events, alive >>

SpecStore == Init /\ [][NextStore]_vars

\* the window lengths get_app_usage is asked for
UsageDays == {1, 2, 3}

\* ORDER BY date DESC: SQL fixes no order among the rows of one date, so
\* every order of the rows with descending dates is a possible outcome
OrderByDateDesc(rows) ==
    { [i \in DOMAIN rows |-> rows[p[i]]] :
        p \in { q \in Permutations(DOMAIN rows) :
                  \A i, j \in DOMAIN rows :
                      i < j => rows[q[i]].date >= rows[q[j]].date } }

\* ActivityLogger.get_app_usage(date, days): the possible results; with
\* days > 1 the rows up to the date, latest date first, LIMIT days
get_app_usage_days(rows, date, days) ==
    IF days > 1
    THEN { SubSeq(sorted, 1, IF Len(sorted) < days THEN Len(sorted) ELSE days) :
             sorted \in OrderByDateDesc(SelectSeq(rows, LAMBDA row : row.date <= date)) }
    ELSE { get_app_usage(rows, date) }

\* one call of get_app_usage: it reads the store and returns
Query(date, days) ==
    /\ \E result \in get_app_usage_days(app_usage, date, days) :
           batch' = [op |-> "usage", date |-> date, days |-> days,
                     rows |-> app_usage, result |-> result]
    /\ UNCHANGED << trackerVars, app_usage, callerVars, file_events >>

NextUsage ==
    \/ \E c \in Callers, a \in Apps, d \in 0..MaxDelta, date \in Dates :
          /\ CallSelect(c, a, d, date)
          /\ UNCHANGED << trackerVars, batch, file_events, alive >>
    \/ \E c \in Callers : CallWrite(c) /\ UNCHANGED << trackerVars, batch, file_events, alive >>
    \/ \E date \in Dates, days \in UsageDays : Query(date, days)

SpecUsage == Init /\ [][NextUsage]_vars

(***************************************************************************)
(* Analyzer.identify_frequent_sequences: the sequence miner                *)
(***************************************************************************)
\* a row of user_events as the miner's query reads it, with its timestamp
\* column: an ISO string, kept as << date, time of day >>
StampedEvent(timestamp, window_title, application, event_type) ==
    [timestamp |-> timestamp, window_title |-> window_title,
     application |-> application, event_type |-> event_type]

\* line 83: (date.today() - timedelta(days)).strftime("%Y-%m-%d"), a date
\* string without a time of day
cutoff_date(today, days) == today - days

\* timestamp >= ? between an ISO timestamp and a date string: the strings
\* are compared character by character, so a timestamp of the cutoff day,
\* which starts with the date string and is longer, is not smaller
TimestampAtLeast(timestamp, date) == timestamp[1] >= date

\* timestamp order of two ISO strings
TimestampBefore(t1, t2) ==
    t1[1] < t2[1] \/ (t1[1] = t2[1] /\ t1[2] < t2[2])

\* ORDER BY timestamp: rows with equal timestamps stay in rowid order
RECURSIVE InsertByTimestamp(_, _)
InsertByTimestamp(sorted, row) ==
    IF sorted = << >> THEN << row >>
    ELSE IF TimestampBefore(row.timestamp, sorted[Len(sorted)].timestamp)
         THEN Append(InsertByTimestamp(SubSeq(sorted, 1, Len(sorted) - 1), row),
                     sorted[Len(sorted)])
         ELSE Append(sorted, row)

RECURSIVE OrderByTimestamp(_)
OrderByTimestamp(rows) ==
    IF rows = << >> THEN << >>
    ELSE InsertByTimestamp(OrderByTimestamp(SubSeq(rows, 1, Len(rows) - 1)),
                           rows[Len(rows)])

\* the query of lines 84-91
IsRecentWindowChange(row, date) ==
    row.event_type = "window_change" /\ TimestampAtLeast(row.timestamp, date)

SelectWindowChanges(events, date) ==
    LET Test(row) == IsRecentWindowChange(row, date)
    IN  OrderByTimestamp(SelectSeq(events, Test))

\* line 100: f"{row['application']}: {row['window_title']}"
Label(row) == << row.application, row.window_title >>

\* lines 99-100: the number of consecutive rows in one group
SequenceLength == 3

\* lines 98-101: the groups of consecutive labels, one per start position
Sequences(df) ==
    [i \in 1..(IF Len(df) >= SequenceLength THEN Len(df) - SequenceLength + 1 ELSE 0)
        |-> [k \in 1..SequenceLength |-> Label(df[i + k - 1])]]

\* number of positions of seqs that hold seq
RECURSIVE CountOf(_, _)
CountOf(seqs, seq) ==
    IF seqs = << >> THEN 0
    ELSE CountOf(Tail(seqs), seq) + (IF Head(seqs) = seq THEN 1 ELSE 0)

\* line 104: Counter(sequences).items(), each distinct group with its count,
\* in the order of first occurrence
RECURSIVE CounterItems(_, _)
CounterItems(seqs, i) ==
    IF i > Len(seqs) THEN << >>
    ELSE IF \E j \in 1..(i - 1) : seqs[j] = seqs[i]
         THEN CounterItems(seqs, i + 1)
         ELSE << [sequence |-> seqs[i], frequency |-> CountOf(seqs, seqs[i])] >>
              \o CounterItems(seqs, i + 1)

\* line 114: list.sort(key = frequency, reverse = True); the sort is stable,
\* items of equal frequency keep their order
RECURSIVE InsertByFrequency(_, _)
InsertByFrequency(sorted, item) ==
    IF sorted = << >> THEN << item >>
    ELSE IF item.frequency > sorted[Len(sorted)].frequency
         THEN Append(InsertByFrequency(SubSeq(sorted, 1, Len(sorted) - 1), item),
                     sorted[Len(sorted)])
         ELSE Append(sorted, item)

\* a descending sort that is not stable: an item goes before the items of
\* equal frequency
RECURSIVE InsertBeforeEqual(_, _)
InsertBeforeEqual(sorted, item) ==
    IF sorted = << >> THEN << item >>
    ELSE IF item.frequency >= sorted[Len(sorted)].frequency
         THEN Append(InsertBeforeEqual(SubSeq(sorted, 1, Len(sorted) - 1), item),
                     sorted[Len(sorted)])
         ELSE Append(sorted, item)

RECURSIVE SortByFrequencyUnstable(_)
SortByFrequencyUnstable(items) ==
    IF items = << >> THEN << >>
    ELSE InsertBeforeEqual(
             SortByFrequencyUnstable(SubSeq(items, 1, Len(items) - 1)),
             items[Len(items)])

RECURSIVE SortByFrequency(_)
SortByFrequency(items) ==
    IF items = << >> THEN << >>
    ELSE InsertByFrequency(SortByFrequency(SubSeq(items, 1, Len(items) - 1)),
                           items[Len(items)])

\* lines 94-116: the frequent sequences of the rows df
FrequentSequences(df, min_frequency) ==
    LET Frequent(item) == item.frequency >= min_frequency
    IN  IF df = << >> THEN << >>
        ELSE SortByFrequency(SelectSeq(CounterItems(Sequences(df), 1), Frequent))

\* identify_frequent_sequences(days, min_frequency), run on the day today
identify_frequent_sequences(events, today, days, min_frequency) ==
    FrequentSequences(SelectWindowChanges(events, cutoff_date(today, days)),
                      min_frequency)

\* the wall clock: the program starts at midnight of Today
TicksPerDay == 24 * 3600 * Res

\* time_utils.get_current_date and get_current_timestamp at clock value t
get_current_date(t) == Today + (t \div TicksPerDay)
get_current_timestamp(t) == << get_current_date(t), t % TicksPerDay >>

\* the miner's clock moves by half a day or by a day
DaySteps == {TicksPerDay \div 2, TicksPerDay}

\* the event types and the arguments the miner is run with
MinedKinds == {"window_change", "keyboard"}
MinerDays == {1, 2}
MinFrequencies == {1, 2}

\* ActivityLogger.log_user_event with the timestamp column: the row is
\* stamped with the clock at insertion
LogEvent(w, kind, max) ==
    /\ Len(user_events) < max
    /\ user_events' = Append(user_events,
                             StampedEvent(get_current_timestamp(now), w.title,
                                          w.application, kind))
    /\ UNCHANGED << now, advances, fg, changes, inputs, failures, running,
                    spawned, active_window, last_input_time, lock, pcTick,
                    tickWin, pcFlush, pcInput, app_usage, callerVars, batch, file_events, alive,
                    histVars >>

\* a miner that removes from the store the rows it has read
MineAndRemove(days, min_frequency) ==
    /\ batch' = [op |-> "mine", days |-> days, min_frequency |-> min_frequency,
                 at |-> now, events |-> user_events,
                 result |-> identify_frequent_sequences(
                                user_events, get_current_date(now), days,
                                min_frequency)]
    /\ user_events' =
           SelectSeq(user_events,
                     LAMBDA row : ~IsRecentWindowChange(
                                      row, cutoff_date(get_current_date(now), days)))
    /\ UNCHANGED << now, advances, fg, changes, inputs, failures, running,
                    spawned, active_window, last_input_time, lock, pcTick,
                    tickWin, pcFlush, pcInput, app_usage, callerVars,
                    file_events, alive, histVars >>

\* one run of identify_frequent_sequences: it reads the store and returns
Mine(days, min_frequency) ==
    /\ batch' = [op |-> "mine", days |-> days, min_frequency |-> min_frequency,
                 at |-> now, events |-> user_events,
                 result |-> identify_frequent_sequences(
                                user_events, get_current_date(now), days,
                                min_frequency)]
    /\ UNCHANGED << trackerVars, app_usage, callerVars, file_events >>

NextMiner ==
    \/ \E w \in Windows, kind \in MinedKinds : LogEvent(w, kind, MaxEvents)
    \/ \E days \in MinerDays, min_frequency \in MinFrequencies :
            Mine(days, min_frequency)

SpecMiner == Init /\ [][NextMiner]_vars

NextMinerClock ==
    \/ \E dt \in DaySteps : Advance(dt)
    \/ \E w \in Windows, kind \in MinedKinds : LogEvent(w, kind, MaxStamped)
    \/ \E days \in MinerDays, min_frequency \in MinFrequencies :
            Mine(days, min_frequency)

SpecMinerClock == Init /\ [][NextMinerClock]_vars

(***************************************************************************)
(* Analyzer.identify_automation_candidates and the scorer of               *)
(* ArketicAssistant                                                        *)
(***************************************************************************)
\* the elements of a sequence
Range(f) == { f[i] : i \in DOMAIN f }

\* a string of digits, ':' and '-' is the sequence of its characters; the
\* digits are 0..9, and as in ASCII '-' is below the digits and ':' above
Colon == 10
Minus == -1

\* str(n) for n >= 0
RECURSIVE Digits(_)
Digits(n) == IF n < 10 THEN << n >> ELSE Append(Digits(n \div 10), n % 10)

\* f"{n:02d}": at least two characters, the sign included
Pad2(n) ==
    IF n < 0 THEN << Minus >> \o Digits(-n)
    ELSE IF n < 10 THEN << 0, n >> ELSE Digits(n)

\* time_utils.format_duration: divmod rounds towards minus infinity
format_duration(seconds) ==
    LET hours == seconds \div 3600
        remainder == seconds % 3600
        minutes == remainder \div 60
    IN  Pad2(hours) \o << Colon >> \o Pad2(minutes) \o << Colon >>
        \o Pad2(remainder % 60)

\* str.split(":")
RECURSIVE Split(_)
Split(str) ==
    IF \A i \in DOMAIN str : str[i] # Colon THEN << str >>
    ELSE LET i == CHOOSE k \in DOMAIN str :
                      str[k] = Colon /\ \A j \in 1..(k - 1) : str[j] # Colon
         IN  << SubSeq(str, 1, i - 1) >> \o Split(SubSeq(str, i + 1, Len(str)))

\* int(part) of a part that is an optional sign and digits
RECURSIVE DigitsValue(_)
DigitsValue(part) ==
    IF part = << >> THEN 0
    ELSE 10 * DigitsValue(SubSeq(part, 1, Len(part) - 1)) + part[Len(part)]

ParseInt(part) ==
    IF part # << >> /\ Head(part) = Minus THEN -DigitsValue(Tail(part))
    ELSE DigitsValue(part)

\* the order of Python on strings: character by character, a proper prefix
\* is the smaller one
RECURSIVE StringLess(_, _)
StringLess(a, b) ==
    IF b = << >> THEN FALSE
    ELSE IF a = << >> THEN TRUE
    ELSE IF Head(a) # Head(b) THEN Head(a) < Head(b)
    ELSE StringLess(Tail(a), Tail(b))

\* the applications, in the order of their names
AppNames == << "A", "B", "C", "D" >>

\* Analyzer.analyze_app_usage(date): the rows of the date, summed by
\* application (groupby sorts by name), each sum formatted; the dict is the
\* sequence of its items
analyze_app_usage(rows, date) ==
    LET OfApp(a) == SelectSeq(rows, LAMBDA row : row.date = date /\ row.application = a)
        Used(a) == OfApp(a) # << >>
        names == SelectSeq(AppNames, Used)
    IN  [i \in DOMAIN names |->
            [application |-> names[i],
             duration |-> format_duration(SumDurations(OfApp(names[i])))]]

\* line 247: sorted(app_usage.items(), key=lambda x: x[1], reverse=True);
\* the key is the formatted duration, a string, and the sort is stable
RECURSIVE InsertByDuration(_, _)
InsertByDuration(sorted, item) ==
    IF sorted = << >> THEN << item >>
    ELSE IF StringLess(sorted[Len(sorted)].duration, item.duration)
         THEN Append(InsertByDuration(SubSeq(sorted, 1, Len(sorted) - 1), item),
                     sorted[Len(sorted)])
         ELSE Append(sorted, item)

RECURSIVE SortByDuration(_)
SortByDuration(items) ==
    IF items = << >> THEN << >>
    ELSE InsertByDuration(SortByDuration(SubSeq(items, 1, Len(items) - 1)),
                          items[Len(items)])

\* seq[:n]
Take(seq, n) == SubSeq(seq, 1, IF Len(seq) < n THEN Len(seq) ELSE n)

\* lines 226, 237, 248, 258: the defaults of the miner, the number of
\* sequences and of applications kept, the threshold of file activity
DefaultDays == 7
DefaultMinFrequency == 3
TopSequences == 5
TopApps == 3
FileThreshold == 10

\* Analyzer.analyze_file_activities: activity_counts is value_counts() of
\* the event types, the types that occur with their counts, the larger
\* count first; the dict is the sequence of its items
RECURSIVE activity_counts(_)
activity_counts(counts) ==
    LET present == { t \in DOMAIN counts : counts[t] > 0 }
    IN  IF present = { } THEN << >>
        ELSE LET t == CHOOSE u \in present :
                          \A v \in present : counts[u] >= counts[v]
             IN  << [event_type |-> t, count |-> counts[t]] >>
                 \o activity_counts([u \in DOMAIN counts \ {t} |-> counts[u]])

\* Analyzer.identify_automation_candidates; file_counts is the table of
\* file events
identify_automation_candidates(events, rows, file_counts, today) ==
    LET frequent_sequences ==
            Take(identify_frequent_sequences(events, today, DefaultDays,
                                             DefaultMinFrequency), TopSequences)
        sorted_apps == Take(SortByDuration(analyze_app_usage(rows, today)), TopApps)
        busy == SelectSeq(activity_counts(file_counts),
                          LAMBDA item : item.count > FileThreshold)
    IN  [i \in DOMAIN frequent_sequences |->
            [type |-> "sequence",
             frequency |-> frequent_sequences[i].frequency,
             details |-> frequent_sequences[i].sequence]]
        \o [i \in DOMAIN sorted_apps |->
            [type |-> "app_usage",
             duration |-> sorted_apps[i].duration,
             details |-> sorted_apps[i].application]]
        \o [i \in DOMAIN busy |->
            [type |-> "file_activity",
             count |-> busy[i].count,
             details |-> busy[i].event_type]]

\* scores are exact numbers, counted in 1/600 of a point: a point is ten
\* minutes of usage, 600 seconds
ScoreUnit == 10 * 60
MaxScore == 100
HighScore == 50
MediumScore == 20

Min(a, b) == IF a < b THEN a ELSE b

\* ArketicAssistant._calculate_automation_score
RawScore(candidate) ==
    IF candidate.type = "sequence" THEN candidate.frequency * 10 * ScoreUnit
    ELSE IF candidate.type = "app_usage" THEN
        LET duration_parts == Split(candidate.duration)
        IN  IF Len(duration_parts) = 3
            THEN (ParseInt(duration_parts[1]) * 60 + ParseInt(duration_parts[2])) * 60
                 + ParseInt(duration_parts[3])
            ELSE 0
    ELSE IF candidate.type = "file_activity" THEN candidate.count * (ScoreUnit \div 5)
    ELSE 0

\* a scorer without the cap
score_without_cap(candidate) == RawScore(candidate)

_calculate_automation_score(candidate) ==
    Min(RawScore(candidate), MaxScore * ScoreUnit)

\* a level mapping that gives the scores 50 and 20 to the lower level
priority_level_above(score) ==
    IF score > HighScore * ScoreUnit THEN "Yuksek"
    ELSE IF score > MediumScore * ScoreUnit THEN "Orta"
    ELSE "Dusuk"

\* a scorer that returns the entries in the order of the candidates
Unsorted(items) == items

\* ArketicAssistant._get_priority_level; the labels are the Turkish words
\* for high, medium and low, here in ASCII
_get_priority_level(score) ==
    IF score >= HighScore * ScoreUnit THEN "Yuksek"
    ELSE IF score >= MediumScore * ScoreUnit THEN "Orta"
    ELSE "Dusuk"

\* line 281: sort(key = score, reverse = True), stable
RECURSIVE InsertByScore(_, _)
InsertByScore(sorted, item) ==
    IF sorted = << >> THEN << item >>
    ELSE IF item.score > sorted[Len(sorted)].score
         THEN Append(InsertByScore(SubSeq(sorted, 1, Len(sorted) - 1), item),
                     sorted[Len(sorted)])
         ELSE Append(sorted, item)

RECURSIVE SortByScore(_)
SortByScore(items) ==
    IF items = << >> THEN << >>
    ELSE InsertByScore(SortByScore(SubSeq(items, 1, Len(items) - 1)),
                       items[Len(items)])

\* lines 270-278: each candidate with its score and its priority
Scored(candidate) ==
    [recommendation |-> candidate,
     score |-> _calculate_automation_score(candidate),
     priority |-> _get_priority_level(_calculate_automation_score(candidate))]

\* ArketicAssistant.get_automation_recommendations
get_automation_recommendations(events, rows, file_counts, today) ==
    LET candidates == identify_automation_candidates(events, rows, file_counts, today)
    IN  SortByScore([i \in DOMAIN candidates |-> Scored(candidates[i])])

\* the histories of the scorer: len window changes that alternate between
\* the two windows
History(len) ==
    [i \in 1..len |->
        LET w == IF i % 2 = 1 THEN FirstWindow
                 ELSE CHOOSE v \in Windows : v # FirstWindow
        IN  StampedEvent(get_current_timestamp(0), w.title, w.application,
                         "window_change")]

HistoryLengths == {0, 12, 18, 32}

\* the usage totals of an application on one day, in seconds, None for an
\* application without a row
UsageTotals == {None, 2700, 36000, 360000}

\* the usage tables: a row of yesterday, then the rows of today
UsageTable(totals) ==
    LET names == SelectSeq(AppNames, LAMBDA a : totals[a] # None)
    IN  << Row(Today - 1, AppNames[1], 36000) >>
        \o [i \in DOMAIN names |-> Row(Today, names[i], totals[names[i]])]

UsageTables ==
    { UsageTable(totals) : totals \in [Range(AppNames) -> UsageTotals] }

\* the numbers of file events of one type in the last days
FileCounts == {0, 10, 11, 30, 100, 600}

InitScorer ==
    \E len \in HistoryLengths, rows \in UsageTables,
       counts \in [FileEventTypes -> FileCounts] :
        InitStore(History(len), rows, counts)

\* one run of get_automation_recommendations: it reads the store and returns
Recommend ==
    /\ batch' = [op |-> "recommend", at |-> now, events |-> user_events,
                 rows |-> app_usage, file_counts |-> file_events,
                 result |-> get_automation_recommendations(
                                user_events, app_usage, file_events,
                                get_current_date(now))]
    /\ UNCHANGED << trackerVars, app_usage, callerVars, file_events >>

NextScorer == Recommend

SpecScorer == InitScorer /\ [][NextScorer]_vars

\* the batch jobs beside the logging of events, on a store with usage rows
\* and file events
BatchTotals == {None, 2700}
BatchCounts == {0, 30}

InitBatch ==
    \E totals \in [Range(AppNames) -> BatchTotals],
       counts \in [FileEventTypes -> BatchCounts] :
        InitStore(<< >>, UsageTable(totals), counts)

NextBatch ==
    \/ \E w \in Windows, kind \in MinedKinds : LogEvent(w, kind, MaxStamped)
    \/ \E days \in MinerDays, min_frequency \in MinFrequencies :
            Mine(days, min_frequency)
    \/ Recommend

SpecBatch == InitBatch /\ [][NextBatch]_vars

(***************************************************************************)
(* Properties                                                              *)
(***************************************************************************)
\* total of the stored durations of one (date, application) key
Total(rows, key) == SumDurations(KeyRows(rows, key[1], key[2]))

CallersIdle == \A c \in Callers : pcCall[c] = "idle"

\* C1: idle exclusion. A flush stored while the user is idle, by a transition
\* or by the periodic loop, carries no more seconds than the part of the
\* flushed span (last_update, now] in which the user was not idle.
C1_IdleExclusion ==
    (lastFlush.ok /\ ~lastFlush.active)
        => lastFlush.delta * Res <= lastFlush.elapsed - lastFlush.idle

\* C2: a foreground period in which the user was never idle has accrued its
\* full length in whole seconds to its application when the transition that
\* ends it completes.
C2_FullAccrual ==
    (closed.application # "" /\ closed.idle = 0)
        => closed.accrued = closed.length \div Res

OneRow(rows, key) == Len(KeyRows(rows, key[1], key[2])) = 1

\* C3: update_app_usage is atomic per key. Once every call has returned, the
\* duration stored in the row of a key is the sum of the deltas applied to
\* that key, in every interleaving of the callers' SELECT and write steps:
\* no delta is lost.
C3_NoLostDelta ==
    CallersIdle => \A key \in Keys :
                      OneRow(app_usage, key) => Total(app_usage, key) = accepted[key]

\* C4: no double counting between the transition flush and the periodic
\* flush. The seconds stored by the tracker never exceed the time elapsed
\* since the first observation.
C4_NoDoubleCounting ==
    IF firstObs = None THEN app_usage = << >>
    ELSE SumDurations(app_usage) * Res <= now - firstObs

\* C4 witness: a period that the periodic loop flushed has been closed by a
\* transition that flushed as well.
C4_Witness ==
    /\ lastFlush.path = "transition" /\ lastFlush.ok
    /\ lastFlush.delta > 0
    /\ closed.accrued > lastFlush.delta

\* C5: idle time is not counted once activity resumes. A flush stored while
\* the user is active again carries no seconds of an idle period that lies
\* inside the flushed span.
C5_NoIdleAfterResume ==
    (lastFlush.ok /\ lastFlush.active)
        => lastFlush.delta * Res <= lastFlush.elapsed - lastFlush.idle

\* C6: the same-window tick of an active user advances last_update to now
\* and flushes the whole seconds elapsed since the previous last_update to
\* the current application.
C6_TickFlushes ==
    [][(pcTick = "same" /\ pcTick' = "loop" /\ IsActive)
          => /\ active_window'.last_update = now
             /\ Reported(app_usage', Today, active_window.application)
                  = Reported(app_usage, Today, active_window.application)
                    + IntSeconds(total_seconds(active_window.last_update))]_vars

\* C7: accrual additivity. After calls applied one after another from an
\* empty table, get_app_usage(D) reports for each application the sum of the
\* deltas applied to (D, A).
C7_Additivity ==
    ~overlap => \A key \in Keys :
                   Reported(app_usage, key[1], key[2]) = accepted[key]

\* C7 witness: at least two calls for one key, one after another, with a sum
\* that no single delta reaches.
C7_Witness ==
    /\ ~overlap /\ CallersIdle
    /\ \E key \in Keys : accepted[key] > MaxDelta

\* C8: a zero delta is a no-op. The records get_app_usage(D) returns are the
\* same before and after update_app_usage(A, 0, D).
C8_ZeroDeltaNoOp ==
    [][\A c \in Callers :
          (pcCall[c] = "write" /\ pcCall'[c] = "idle"
                /\ callArg[c].duration_seconds = 0)
             => get_app_usage(app_usage', callArg[c].date)
                  = get_app_usage(app_usage, callArg[c].date)]_vars

\* C9: the duration stored in the row of a key never decreases.
C9_Monotonic ==
    [][\A key \in Keys :
          (OneRow(app_usage, key) /\ OneRow(app_usage', key))
             => Total(app_usage', key) >= Total(app_usage, key)]_vars

\* C10: at most one row per (date, application).
C10_OneRowPerKey ==
    \A key \in Keys : Len(KeyRows(app_usage, key[1], key[2])) <= 1

\* C11: the tracker discards a zero or negative delta: no update_app_usage
\* call is made, by the transition or by the periodic loop, with a delta that
\* is not positive.
C11_NoZeroDeltaCall ==
    lastFlush.path # "none" => lastFlush.delta > 0

\* C12: every window transition appends exactly one window_change event.
\* When the tick loop has finished handling a tick on which the observed
\* window differed, the last row of user_events is the window_change event
\* of the observed window and active_window is that window, also when a
\* store call made during the transition raised.
C12_OneEventPerTransition ==
    [][(pcTick \in {"change", "flush_prev"} /\ pcTick' = "loop")
          => /\ active_window'.title = tickWin.title
             /\ active_window'.application = tickWin.application
             /\ user_events' # << >>
             /\ user_events'[Len(user_events')]
                  = Event(tickWin.title, tickWin.application, "window_change")]_vars

\* C13: on a window transition the flushed delta is credited to the
\* application that was in active_window before the transition and to no
\* other, and active_window becomes the observed window with last_update =
\* now.
C13_CreditPrevious ==
    [][(pcTick = "flush_prev" /\ pcTick' = "loop")
          => /\ active_window' = [title |-> tickWin.title,
                                  application |-> tickWin.application,
                                  last_update |-> now]
             /\ \A a \in Apps :
                   Reported(app_usage', Today, a)
                     = Reported(app_usage, Today, a)
                       + (IF a = active_window.application /\ HasElapsed
                          THEN IntSeconds(total_seconds(active_window.last_update))
                          ELSE 0)]_vars

\* C13 witness: a transition from A to B has flushed whole seconds; they are
\* stored for A, nothing is stored for B, and the period of B starts now.
C13_Witness ==
    /\ lastFlush.path = "transition" /\ lastFlush.ok /\ lastFlush.delta > 0
    /\ lastFlush.application = "A"
    /\ active_window.application = "B" /\ active_window.last_update = now
    /\ Reported(app_usage, Today, "A") > 0
    /\ Reported(app_usage, Today, "B") = 0

\* C14: active_window and last_input_time are read and written under the
\* lock for the whole of every read-modify-write. While the tick loop holds
\* a decision taken from active_window and last_input_time (the window
\* changed, or the window is the same and the user is active) and has not
\* yet acted on it, it holds the lock.
C14_DecideUnderLock ==
    pcTick \in {"change", "same"} => lock = "tick"

\* C15: the lock is never held across I/O. A step of the tracker that writes
\* to the store (a row of user_events, a duration of app_usage) is taken
\* with the lock released: the lock is free before the write and is not
\* held when the write has been made.
C15_NoLockAcrossIO ==
    [][(user_events' # user_events \/ app_usage' # app_usage)
          => (lock = "free" /\ lock' = "free")]_vars

\* the last row of user_events
LastEvent(events) == events[Len(events)]

\* C16: each captured press sets last_input_time and appends exactly one
\* keyboard or mouse_click event whose window title and application are
\* those of active_window at capture time (once the tracker has observed a
\* window).
C16_TagsWindowState ==
    [][(inputs' = inputs + 1 /\ active_window.last_update # None)
          => /\ last_input_time' = now
             /\ Len(user_events') = Len(user_events) + 1
             /\ LastEvent(user_events').event_type \in InputKinds
             /\ LastEvent(user_events').window_title = active_window.title
             /\ LastEvent(user_events').application = active_window.application]_vars

\* C17: the events of an application are appended in the order they were
\* observed. While a window_change event observed by the tick loop is still
\* waiting to be appended, no event observed later for the same application
\* is appended ahead of it.
C17_EventsInObservedOrder ==
    [][(pcTick = "change" /\ Len(user_events') > Len(user_events)
           /\ LastEvent(user_events').event_type \in InputKinds)
          => LastEvent(user_events').application # tickWin.application]_vars

\* stop_monitoring has been called since the first start
Stopped == (spawned >= 1 /\ ~running) \/ spawned >= 2

\* C18: every loop tests the stop flag once per iteration, and once
\* stop_monitoring has set it a loop started before the stop exits at its
\* next test, whatever is called afterwards: after a stop, the next move of
\* such a loop from the top of its iteration is its exit.
C18_LoopsExitAfterStop ==
    [][Stopped
          => /\ (pcTick = "loop" /\ pcTick' # pcTick) => pcTick' = "exit"
             /\ (pcFlush = "loop" /\ pcFlush' # pcFlush) => pcFlush' = "exit"]_vars

\* C19: store unavailability never stops tracking. Neither loop is ended by
\* a raise of log_user_event or update_app_usage: while the tracker runs,
\* the tick loop and the periodic flush loop are alive.
C19_LoopsSurviveStoreFailure ==
    running => (pcTick \in {"loop", "change", "flush_prev", "same"}
                /\ pcFlush \in {"loop", "set"})

\* what a capture may return: a window of the desktop, a window whose
\* process could not be read, or the error values
CapturedWindows ==
    Windows \cup { [title |-> w.title, application |-> UnknownApplication] : w \in Windows }
            \cup { ErrorWindow }

\* C20: a capture failure is never fatal. Whatever the capture's outcome,
\* the tick loop and the listener callbacks keep running, and every window
\* the tracker takes from a capture (the window the tick loop acts on, the
\* window of every stored event) is a window of the desktop or carries the
\* substituted values.
C20_CaptureNeverFatal ==
    /\ running => (pcTick \in {"loop", "change", "flush_prev", "same"}
                   /\ \A k \in InputKinds : pcInput[k] = "ready")
    /\ pcTick \in {"change", "flush_prev"} => tickWin \in CapturedWindows
    /\ \A i \in 1..Len(user_events) :
          [title |-> user_events[i].window_title,
           application |-> user_events[i].application] \in CapturedWindows

\* C20 witness: a failed capture was handled as a transition to the error
\* window, and a later tick has observed and logged the real window again
C20_Witness ==
    /\ running /\ pcTick = "loop"
    /\ active_window.title = "t1"
    /\ \E i, j \in 1..Len(user_events) :
          /\ i < j
          /\ user_events[i] = Event("Hata", "Hata", "window_change")
          /\ user_events[j] = Event("t1", "A", "window_change")

(***************************************************************************)
(* The sequence miner                                                      *)
(***************************************************************************)
\* the rows one run of the miner read, as its query orders them
Mined == SelectWindowChanges(batch.events, cutoff_date(get_current_date(batch.at), batch.days))

\* the groups of n consecutive labels of rows, by start position
NGrams(rows, n) ==
    [i \in 1..(IF Len(rows) >= n THEN Len(rows) - n + 1 ELSE 0)
        |-> [k \in 1..n |-> Label(rows[i + k - 1])]]

\* the window lengths the miner can be asked for
WindowLengths == {2, 3}

\* the n-grams of rows that occur at least min_frequency times, each with
\* its number of occurrences
FrequentNGrams(rows, n, min_frequency) ==
    { [sequence |-> g, frequency |-> CountOf(NGrams(rows, n), g)] :
        g \in { h \in Range(NGrams(rows, n)) :
                   CountOf(NGrams(rows, n), h) >= min_frequency } }

\* C21: for every window length n, the miner returns exactly the n-grams of
\* the window-change sequence whose number of occurrences, counted over the
\* start positions 0..len-n, is at least minFrequency, each with that number
\* as its frequency
C21_ExactNGrams ==
    batch.op = "mine" =>
        \A n \in WindowLengths :
            /\ Range(batch.result) = FrequentNGrams(Mined, n, batch.min_frequency)
            /\ Len(batch.result) = Cardinality(Range(batch.result))

\* the first start position at which the group g occurs among the rows read
FirstOccurrence(g) ==
    LET grams == NGrams(Mined, SequenceLength)
    IN  CHOOSE i \in DOMAIN grams :
            grams[i] = g /\ \A j \in 1..(i - 1) : grams[j] # g

\* C22: the miner's result is in descending order of frequency, and the
\* sequences of equal frequency are in the order of their first occurrence
C22_SortedStable ==
    batch.op = "mine" =>
        \A i, j \in DOMAIN batch.result :
            i < j =>
                \/ batch.result[i].frequency > batch.result[j].frequency
                \/ /\ batch.result[i].frequency = batch.result[j].frequency
                   /\ FirstOccurrence(batch.result[i].sequence)
                        < FirstOccurrence(batch.result[j].sequence)

\* a result with two sequences of equal frequency, and with a sequence that
\* the sort moved before one that occurred earlier
C22_Witness ==
    /\ batch.op = "mine"
    /\ \E i, j \in DOMAIN batch.result :
           i < j /\ batch.result[i].frequency = batch.result[j].frequency
    /\ \E i, j \in DOMAIN batch.result :
           /\ i < j
           /\ FirstOccurrence(batch.result[i].sequence)
                > FirstOccurrence(batch.result[j].sequence)

\* the instant days days before the run of the miner
DaysBefore == << get_current_date(batch.at) - batch.days, batch.at % TicksPerDay >>

\* the stored window_change events that are not older than that instant,
\* in ascending order of timestamp
RecentWindowChanges ==
    LET Recent(row) == /\ row.event_type = "window_change"
                       /\ ~TimestampBefore(row.timestamp, DaysBefore)
    IN  OrderByTimestamp(SelectSeq(batch.events, Recent))

\* C23: the miner works on exactly the stored events of type window_change
\* whose timestamp is at least now - days, in ascending order of timestamp;
\* keyboard and mouse events and older events do not contribute
C23_RecentWindowChangesOnly ==
    batch.op = "mine" =>
        batch.result = FrequentSequences(RecentWindowChanges, batch.min_frequency)

\* C24: when fewer window_change events than the window length fall in the
\* mining window, the events not older than now - days, the miner returns
\* the empty list
C24_InsufficientData ==
    (batch.op = "mine" /\ Len(RecentWindowChanges) < SequenceLength) =>
        batch.result = << >>

(***************************************************************************)
(* The scorer                                                              *)
(***************************************************************************)
\* the total of application a on the day of the run, in seconds
TotalToday(a) ==
    SumDurations(SelectSeq(batch.rows,
        LAMBDA row : row.date = get_current_date(batch.at) /\ row.application = a))

\* the score the formulas give an entry, in 1/600 of a point:
\* min(frequency * 10, 100), min(totalMinutes / 10, 100), min(count / 5, 100)
FormulaScore(entry) ==
    LET candidate == entry.recommendation
    IN  IF candidate.type = "sequence"
        THEN Min(candidate.frequency * 6000, 60000)
        ELSE IF candidate.type = "app_usage"
        THEN Min(TotalToday(candidate.details), 60000)
        ELSE Min(candidate.count * 120, 60000)

\* C25: a sequence candidate scores min(frequency * 10, 100), an app-usage
\* candidate min(totalMinutes / 10, 100), a file-activity candidate
\* min(count / 5, 100), and every score lies within [0, 100]
C25_ScoreFormulas ==
    batch.op = "recommend" =>
        \A i \in DOMAIN batch.result :
            /\ batch.result[i].score = FormulaScore(batch.result[i])
            /\ batch.result[i].score >= 0
            /\ batch.result[i].score <= 60000

\* C26: a score of at least 50 is of high priority, a score from 20 up to
\* but not 50 of medium priority and a score below 20 of low priority;
\* every score has one level, and 50 and 20 belong to the higher one
C26_PriorityLevels ==
    batch.op = "recommend" =>
        \A i \in DOMAIN batch.result :
            LET score == batch.result[i].score
                priority == batch.result[i].priority
            IN  /\ priority \in {"Yuksek", "Orta", "Dusuk"}
                /\ priority = "Yuksek" <=> score >= 50 * ScoreUnit
                /\ priority = "Orta" <=> (score >= 20 * ScoreUnit /\ score < 50 * ScoreUnit)
                /\ priority = "Dusuk" <=> score < 20 * ScoreUnit

\* a result with a score of exactly 50, one of exactly 20 and one below 20
C26_Witness ==
    /\ batch.op = "recommend"
    /\ \E i \in DOMAIN batch.result :
           batch.result[i].score = 50 * ScoreUnit /\ batch.result[i].priority = "Yuksek"
    /\ \E i \in DOMAIN batch.result :
           batch.result[i].score = 20 * ScoreUnit /\ batch.result[i].priority = "Orta"
    /\ \E i \in DOMAIN batch.result :
           batch.result[i].score < 20 * ScoreUnit /\ batch.result[i].priority = "Dusuk"

\* the candidates the analyzer gave the scorer in the run
Candidates ==
    identify_automation_candidates(batch.events, batch.rows, batch.file_counts,
                                   get_current_date(batch.at))

\* the number of positions of seq with the element x
Occurrences(seq, x) == Cardinality({ i \in DOMAIN seq : seq[i] = x })

\* C27: get_automation_recommendations returns the candidates, each once,
\* in descending order of score, and the priority of each entry is the
\* level of its own score
C27_SortedByScore ==
    batch.op = "recommend" =>
        LET candidates == Candidates
            recommendations ==
                [i \in DOMAIN batch.result |-> batch.result[i].recommendation]
        IN  /\ Len(batch.result) = Len(candidates)
            /\ \A k \in DOMAIN candidates :
                   Occurrences(recommendations, candidates[k])
                     = Occurrences(candidates, candidates[k])
            /\ \A i, j \in DOMAIN batch.result :
                   i < j => batch.result[i].score >= batch.result[j].score
            /\ \A i \in DOMAIN batch.result :
                   batch.result[i].priority = _get_priority_level(batch.result[i].score)

\* a result of candidates of the three types and of three priorities, in
\* another order than the analyzer gave them
C27_Witness ==
    /\ batch.op = "recommend"
    /\ \A type \in {"sequence", "app_usage", "file_activity"} :
           \E i \in DOMAIN batch.result : batch.result[i].recommendation.type = type
    /\ \A priority \in {"Yuksek", "Orta", "Dusuk"} :
           \E i \in DOMAIN batch.result : batch.result[i].priority = priority
    /\ LET candidates == Candidates
       IN  \E i \in DOMAIN batch.result :
               batch.result[i].recommendation # candidates[i]

\* the applications with a row on the day of the run
UsedToday ==
    { a \in Range(AppNames) :
        \E i \in DOMAIN batch.rows :
            /\ batch.rows[i].date = get_current_date(batch.at)
            /\ batch.rows[i].application = a }

\* the applications, and the file event types, that a run made candidates
AppCandidates ==
    { batch.result[i].recommendation.details :
        i \in { j \in DOMAIN batch.result :
                   batch.result[j].recommendation.type = "app_usage" } }

FileCandidates ==
    { batch.result[i].recommendation.details :
        i \in { j \in DOMAIN batch.result :
                   batch.result[j].recommendation.type = "file_activity" } }

\* C28: the app-usage candidates are the three applications with the
\* largest total duration of the day, compared by the value of the
\* duration, all of them when the day has fewer; a file event type is a
\* candidate exactly when its count exceeds 10
C28_TopAppsByDuration ==
    batch.op = "recommend" =>
        /\ AppCandidates \subseteq UsedToday
        /\ Cardinality(AppCandidates) = Min(3, Cardinality(UsedToday))
        /\ \A a \in AppCandidates, b \in UsedToday \ AppCandidates :
               TotalToday(a) >= TotalToday(b)
        /\ FileCandidates = { t \in FileEventTypes : batch.file_counts[t] > 10 }

\* a run that scores a sequence of frequency 15 with 100, a usage of 45
\* minutes with 4.5, a usage above 1000 minutes with 100 and a file count
\* of 30 with 6
C25_Witness ==
    /\ batch.op = "recommend"
    /\ \E i \in DOMAIN batch.result :
           /\ batch.result[i].recommendation.type = "sequence"
           /\ batch.result[i].recommendation.frequency = 15
           /\ batch.result[i].score = 100 * ScoreUnit
    /\ \E i \in DOMAIN batch.result :
           /\ batch.result[i].recommendation.type = "app_usage"
           /\ TotalToday(batch.result[i].recommendation.details) = 45 * 60
           /\ 10 * batch.result[i].score = 45 * ScoreUnit
    /\ \E i \in DOMAIN batch.result :
           /\ batch.result[i].recommendation.type = "app_usage"
           /\ TotalToday(batch.result[i].recommendation.details) > 1000 * 60
           /\ batch.result[i].score = 100 * ScoreUnit
    /\ \E i \in DOMAIN batch.result :
           /\ batch.result[i].recommendation.type = "file_activity"
           /\ batch.result[i].recommendation.count = 30
           /\ batch.result[i].score = 6 * ScoreUnit

(***************************************************************************)
(* Reading the usage store                                                 *)
(***************************************************************************)
\* the rows of the table read whose date is one of the days days that end
\* at the date asked for
InWindow(row) ==
    /\ row.date <= batch.date
    /\ row.date > batch.date - (IF batch.days > 1 THEN batch.days ELSE 1)

\* C29: get_app_usage returns exactly the records whose date lies within
\* the days days ending at the given date, the records of the date itself
\* for a single date, each once, the most recent date first
C29_TrailingWindow ==
    batch.op = "usage" =>
        /\ \A row \in Range(batch.rows) \cup Range(batch.result) :
               Occurrences(batch.result, row)
                 = (IF InWindow(row) THEN Occurrences(batch.rows, row) ELSE 0)
        /\ \A i, j \in DOMAIN batch.result :
               i < j => batch.result[i].date >= batch.result[j].date

(***************************************************************************)
(* The batch jobs and the store                                            *)
(***************************************************************************)
\* C30: a run of the miner or of the scorer leaves the tracker's window
\* state and last input, the stored events and the stored usage unchanged,
\* and no step modifies or removes an event that is stored
C30_BatchJobsReadOnly ==
    [][ /\ batch' # batch =>
              /\ active_window' = active_window
              /\ last_input_time' = last_input_time
              /\ user_events' = user_events
              /\ app_usage' = app_usage
              /\ file_events' = file_events
        /\ Len(user_events') >= Len(user_events)
        /\ SubSeq(user_events', 1, Len(user_events)) = user_events ]_vars

\* the miner has run on a store with events and usage rows, found a
\* sequence, and the store is as the run read it
C30_Witness ==
    /\ batch.op = "mine"
    /\ batch.result # << >>
    /\ batch.events = user_events
    /\ app_usage # << >>

(***************************************************************************)
(* The tracker's transitions                                               *)
(***************************************************************************)
\* the stored window_change events, in the order of the store
WindowChanges ==
    SelectSeq(user_events, LAMBDA e : e.event_type = "window_change")

\* C31: no two consecutive window_change events of the stored history carry
\* the same application and title, also when a store call raises part-way
\* through a transition
C31_Debounce ==
    \A i \in 1..(Len(WindowChanges) - 1) :
        \/ WindowChanges[i].application # WindowChanges[i + 1].application
        \/ WindowChanges[i].window_title # WindowChanges[i + 1].window_title

\* the tracker before its first start, before its first observation and
\* its flushes: nothing is flushed before the first observation is
\* complete, and never for the empty application
InitialState ==
    /\ spawned = 0 =>
           /\ active_window = [title |-> "", application |-> "", last_update |-> None]
           /\ last_input_time = None
    /\ firstObs = None =>
           /\ app_usage = << >>
           /\ lastFlush = NoFlush
           /\ Len(WindowChanges) = (IF pcTick = "flush_prev" THEN 1 ELSE 0)
    /\ lastFlush.path # "none" => lastFlush.application # ""
    /\ \A i \in DOMAIN app_usage : app_usage[i].application # ""

\* C32: the tracker starts with empty title and application and with
\* last_update and last_input_time unset; the first observation appends one
\* window_change event and flushes no usage, and no usage is ever flushed
\* for the empty application
C32_InitialState ==
    [][ /\ InitialState
        /\ InitialState'
        /\ (firstObs = None /\ firstObs' # None) =>
               /\ Len(WindowChanges') = 1
               /\ app_usage' = << >>
               /\ lastFlush' = NoFlush ]_vars

\* the first observation is complete: one window_change event is stored and
\* no usage; later a flush has written usage for an application
C32_Witness ==
    /\ firstObs # None
    /\ Len(WindowChanges) >= 1
    /\ lastFlush.ok
    /\ app_usage # << >>

\* C33: after any sequence of start_monitoring and stop_monitoring calls at
\* most one tick loop and one periodic flush loop are running, and a
\* start_monitoring while the tracker runs starts no thread
C33_OneLoopEach ==
    [][ /\ alive'.tick <= 1
        /\ alive'.flush <= 1
        /\ running => (alive'.tick <= alive.tick /\ alive'.flush <= alive.flush) ]_vars

\* stop_monitoring has been called and both loops have exited
LoopsExited == ~running /\ pcTick = "exit" /\ pcFlush = "exit"

\* C34: once stop_monitoring has been called and the loops have exited, the
\* tracker appends no event, makes no update_app_usage call and does not
\* modify last_input_time
C34_QuietAfterStop ==
    [][LoopsExited =>
          /\ user_events' = user_events
          /\ app_usage' = app_usage
          /\ lastFlush' = lastFlush
          /\ last_input_time' = last_input_time]_vars

(***************************************************************************)
(* C35: deadlock freedom. The lock is held only by a thread that is inside *)
(* its with block, a thread that asks for the lock does not hold it, every *)
(* holder gives the lock back, and the tick loop, once it asks for the     *)
(* lock, obtains it.                                                       *)
(***************************************************************************)
\* the with blocks of lines 65-88 and 222-238: who is inside one
InsideWith ==
    /\ lock = "tick" <=> pcTick = "flush_prev"
    /\ lock = "flush" <=> pcFlush = "set"

\* the tick loop stands before `with self.lock` (lines 65 and 212)
TickRequests == pcTick \in {"change", "same"}

Detected(w) ==
    /\ active_window.title = w.title
    /\ active_window.application = w.application
    /\ WindowChanges # << >>
    /\ WindowChanges[Len(WindowChanges)].window_title = w.title
    /\ WindowChanges[Len(WindowChanges)].application = w.application

C36_DetectionLiveness ==
    \A w \in Windows :
        (running /\ fg = w) ~> (Detected(w) \/ fg # w \/ ~running)

C36_Witness ==
    /\ running /\ changes > 0 /\ Detected(fg)
    /\ Len(WindowChanges) >= 2


====
